---- MODULE Spec2Model ----
(***************************************************************************)
(* Model of the da-cloud-gateway worker (src/src/index.js): the fetch      *)
(* entrypoint, the D1 route lookup and the REST and ABLY adapters.          *)
(*                                                                         *)
(* JavaScript values are tagged records: k is the kind, s the tokens of a  *)
(* string (or the literal of a number or boolean), items the elements of   *)
(* an array, f the properties of an object.                                *)
(* Strings are sequences of tokens (a token is a character, or a word that *)
(* the program never looks inside); "/" and " " are always tokens of their *)
(* own, so split, slice, trim and replace are computed on the sequence.    *)
(***************************************************************************)
EXTENDS Integers, Sequences, FiniteSets, TLC

\* ------------------------------------------------------------ JS values

EmptyFields == [x \in {} |-> 0]

Undefined == [k |-> "undefined", s |-> <<>>, items |-> <<>>, f |-> EmptyFields]
Null == [k |-> "null", s |-> <<>>, items |-> <<>>, f |-> EmptyFields]
Str(s) == [k |-> "string", s |-> s, items |-> <<>>, f |-> EmptyFields]
Num(n) == [k |-> "number", s |-> <<n>>, items |-> <<>>, f |-> EmptyFields]
Bool(b) == [k |-> "boolean", s |-> <<b>>, items |-> <<>>, f |-> EmptyFields]
Arr(items) == [k |-> "array", s |-> <<>>, items |-> items, f |-> EmptyFields]
Obj(f) == [k |-> "object", s |-> <<>>, items |-> <<>>, f |-> f]
\* a D1 database binding (env.DB)
D1(h) == [k |-> "d1", s |-> <<h>>, items |-> <<>>, f |-> EmptyFields]

\* if (x) ... / !x / x || y
Truthy(x) ==
    CASE x.k \in {"undefined", "null"} -> FALSE
      [] x.k = "string" -> x.s # <<>>
      [] x.k = "number" -> x.s # <<"0">>
      [] x.k = "boolean" -> x.s = <<"true">>
      [] OTHER -> TRUE

\* a === b for the values the program compares (strings, null, undefined)
StrictEq(a, b) == a.k = b.k /\ a.s = b.s

IsObjectLike(x) == x.k \in {"object", "array"}

\* the own enumerable string keys of an array: "0", "1", ...
IdxKey(i) == CASE i = 1 -> "0" [] i = 2 -> "1" [] i = 3 -> "2" [] OTHER -> "n"

\* x[name]: property read; a missing property, or any property of a
\* primitive that this program reads, is undefined
Get(x, name) ==
    IF x.k = "object" /\ name \in DOMAIN x.f THEN x.f[name] ELSE Undefined

\* name in x, for an object or an array (a primitive throws TypeError)
HasKey(x, name) ==
    IF x.k = "object" THEN name \in DOMAIN x.f ELSE FALSE

\* x[name] = val on an object
SetKey(x, name, val) ==
    Obj([n \in (DOMAIN x.f) \cup {name} |-> IF n = name THEN val ELSE x.f[n]])

\* delete x[name] on an object
DeleteKey(x, name) ==
    Obj([n \in (DOMAIN x.f) \ {name} |-> x.f[n]])

\* ------------------------------------------------------------ strings

\* s.startsWith(p)
StartsWith(s, p) == Len(s) >= Len(p) /\ SubSeq(s, 1, Len(p)) = p

\* s.endsWith(p)
EndsWith(s, p) ==
    Len(s) >= Len(p) /\ SubSeq(s, Len(s) - Len(p) + 1, Len(s)) = p

\* s.slice(n), n >= 0
SliceFrom(s, n) == SubSeq(s, n + 1, Len(s))

RECURSIVE TrimStart(_)
TrimStart(s) ==
    IF s # <<>> /\ Head(s) = " " THEN TrimStart(Tail(s)) ELSE s

RECURSIVE TrimEnd(_)
TrimEnd(s) ==
    IF s # <<>> /\ s[Len(s)] = " " THEN TrimEnd(SubSeq(s, 1, Len(s) - 1)) ELSE s

\* s.trim()
Trim(s) == TrimEnd(TrimStart(s))

\* s.split('/'): the sequence of the pieces between the "/" tokens
RECURSIVE SplitSlash(_, _)
SplitSlash(s, cur) ==
    IF s = <<>> THEN <<cur>>
    ELSE IF Head(s) = "/" THEN <<cur>> \o SplitSlash(Tail(s), <<>>)
    ELSE SplitSlash(Tail(s), Append(cur, Head(s)))

\* pieces.filter(Boolean): the empty string is falsy
RECURSIVE FilterNonEmpty(_)
FilterNonEmpty(pieces) ==
    IF pieces = <<>> THEN <<>>
    ELSE IF Head(pieces) = <<>> THEN FilterNonEmpty(Tail(pieces))
    ELSE <<Head(pieces)>> \o FilterNonEmpty(Tail(pieces))

\* pieces.join('/')
RECURSIVE JoinSlash(_)
JoinSlash(pieces) ==
    IF pieces = <<>> THEN <<>>
    ELSE IF Len(pieces) = 1 THEN Head(pieces)
    ELSE Head(pieces) \o <<"/">> \o JoinSlash(Tail(pieces))

\* s.replace(/\//g, '.')
ReplaceSlashByDot(s) == [i \in 1..Len(s) |-> IF s[i] = "/" THEN "." ELSE s[i]]

\* ------------------------------------------------------------ JSON text

\* A text that is not JSON: "", "  ", "not json", ...
RawText(s) == [t |-> "raw", s |-> s, j |-> Null, pad |-> FALSE]
\* A text that is the JSON encoding of val; pad = TRUE when it is not the
\* encoding JSON.stringify produces (extra whitespace)
JsonText(val, pad) == [t |-> "json", s |-> <<>>, j |-> val, pad |-> pad]

EmptyText == RawText(<<>>)

\* text.length > 0 (a string is truthy when it is not empty)
TextNonEmpty(text) == text.t = "json" \/ text.s # <<>>

\* text.trim().length > 0
TextTrimNonEmpty(text) == text.t = "json" \/ Trim(text.s) # <<>>

\* JSON.parse(text) throws SyntaxError
JsonParseThrows(text) == text.t # "json"

\* JSON.parse(text), when it does not throw
JsonParse(text) == text.j

\* JSON.stringify(data): the canonical encoding
JsonStringify(data) == JsonText(data, FALSE)

\* ------------------------------------------------------------ names

\* a one-token string, used as a property name
Name(n) == Str(<<n>>)

\* the property name a value denotes in env[value]
PropName(x) == IF x.k = "string" /\ Len(x.s) = 1 THEN x.s[1] ELSE "undefined"

\* env[name]
EnvGet(env, name) ==
    IF PropName(name) \in DOMAIN env THEN env[PropName(name)] ELSE Undefined

C_GATEWAY_TOKEN_NAME == Name("DAGATEWAYTOKEN")
C_RouteTableName == Name("darouter")
ABLY_PUBLISH_BASE_URL == <<"https://rest.ably.io/channels">>

\* ------------------------------------------------------------ route configs

\* servicemap.js: the static table, keyed by "<version>/<module>"
SERVICE_MAP ==
    (<<"v1", "/", "users">> :>
        Obj([type |-> Name("REST"),
             targetUrl |-> Str(<<"https:", "/", "/", "users.internal", "/">>),
             authKeyEnvName |-> Name("SVC_KEY"),
             table_name |-> Name("users")]))
    @@ (<<"v1", "/", "events">> :>
        Obj([type |-> Name("ABLY"),
             channelName |-> Name("events"),
             authKeyEnvName |-> Name("ABLY_KEY")]))

\* StaticLookup by the version segment alone: never a key of the table
StaticLookupWrongKey(key) ==
    IF <<Head(key)>> \in DOMAIN SERVICE_MAP THEN SERVICE_MAP[<<Head(key)>>]
    ELSE Undefined

\* SERVICE_MAP[lookupKey]
StaticLookup(key) ==
    IF key \in DOMAIN SERVICE_MAP THEN SERVICE_MAP[key] ELSE Undefined

\* Rows of the darouter table: what `SELECT t1 ... WHERE c1 = ? LIMIT 1`
\* answers, per database and key.  o = "throw": the query rejects;
\* "none": no results array; "rows": the rows, each with its t1 column.
NoRow == [o |-> "rows", rows |-> <<>>]
Row(text) == [o |-> "rows", rows |-> <<[has |-> TRUE, t1 |-> text]>>]
NullRow == [o |-> "rows", rows |-> <<[has |-> FALSE, t1 |-> EmptyText]>>]

CfgOrders ==
    Obj([type |-> Name("REST"),
         targetUrl |-> Str(<<"https:", "/", "/", "orders.internal">>),
         authKeyEnvName |-> Name("SVC_KEY")])
CfgShadow ==
    Obj([type |-> Name("REST"),
         targetUrl |-> Str(<<"https:", "/", "/", "shadow.example">>),
         authKeyEnvName |-> Name("SVC_KEY")])
CfgOpen ==
    Obj([type |-> Name("REST"),
         targetUrl |-> Str(<<"https:", "/", "/", "open.internal">>),
         table_name |-> Str(<<>>)])
CfgBus2 ==
    Obj([type |-> Name("ABLY"),
         channelName |-> Name("audit"),
         authKeyEnvName |-> Name("ABLY_KEY")])
CfgInventory ==
    Obj([type |-> Name("REST"),
         targetUrl |-> Str(<<"https:", "/", "/", "inv.internal", "/">>),
         authKeyEnvName |-> Name("SVC_KEY"),
         table_name |-> Name("inventory")])
CfgNoUrl == Obj([type |-> Name("REST")])
CfgFtp == Obj([type |-> Name("FTP"), authKeyEnvName |-> Name("SVC_KEY")])
CfgNoType == Obj([targetUrl |-> Str(<<"https:", "/", "/", "x.internal">>)])

StoreRows(h) ==
    IF h = "db1" THEN
        (<<"v1", "/", "users">> :> Row(JsonText(CfgShadow, FALSE)))
        @@ (<<"v2", "/", "orders">> :> Row(JsonText(CfgOrders, TRUE)))
        @@ (<<"v2", "/", "open">> :> Row(JsonText(CfgOpen, FALSE)))
        @@ (<<"v2", "/", "bus">> :> Row(JsonText(CfgBus2, FALSE)))
        @@ (<<"v2", "/", "inv">> :> Row(JsonText(CfgInventory, FALSE)))
        @@ (<<"v2", "/", "nourl">> :> Row(JsonText(CfgNoUrl, FALSE)))
        @@ (<<"v2", "/", "ftp">> :> Row(JsonText(CfgFtp, FALSE)))
        @@ (<<"v2", "/", "notype">> :> Row(JsonText(CfgNoType, FALSE)))
        @@ (<<"v2", "/", "bad">> :> Row(RawText(<<"{type:">>)))
        @@ (<<"v2", "/", "blank">> :> NullRow)
        @@ (<<"v2", "/", "jnull">> :> Row(JsonText(Null, FALSE)))
        @@ (<<"v2", "/", "boom">> :> [o |-> "throw", rows |-> <<>>])
        @@ (<<"v2", "/", "void">> :> [o |-> "none", rows |-> <<>>])
    ELSE
        (<<"v2", "/", "orders">> :> Row(JsonText(CfgBus2, FALSE)))
        @@ (<<"v1", "/", "users">> :> Row(JsonText(CfgFtp, FALSE)))

\* G_DB.prepare(query).bind(key).all() on database h
StoreAnswer(h, key) ==
    IF key \in DOMAIN StoreRows(h) THEN StoreRows(h)[key] ELSE NoRow

\* ------------------------------------------------------------ responses

\* new Response(body, {status, headers: {"Content-Type": ctype}})
Response(body, status, ctype) ==
    [kind |-> "response", status |-> status, ctype |-> ctype, body |-> body,
     err |-> "none"]

\* the promise returned by fetch(request, env) rejects with err
Rejected(err) ==
    [kind |-> "rejected", status |-> 0, ctype |-> <<>>, body |-> EmptyText,
     err |-> err]

NoResponse ==
    [kind |-> "none", status |-> 0, ctype |-> <<>>, body |-> EmptyText,
     err |-> "none"]

ApplicationJson == <<"application/json">>

\* jsonError(msg, code)
jsonError(msg, code) ==
    Response(JsonStringify(Obj([success |-> Bool("false"), error |-> Str(msg)])),
             code, ApplicationJson)

\* { success: true, ...data }: the own enumerable properties of data are
\* copied after success; an array or a string spreads its indices, any
\* other primitive and null spread nothing
SpreadSuccess(data) ==
    LET base == [success |-> Bool("true")]
        props ==
            CASE data.k = "object" -> data.f
              [] data.k = "array" ->
                    [n \in {IdxKey(i) : i \in 1..Len(data.items)} |->
                        data.items[CHOOSE i \in 1..Len(data.items) : IdxKey(i) = n]]
              [] data.k = "string" ->
                    [n \in {IdxKey(i) : i \in 1..Len(data.s)} |->
                        Str(<<data.s[CHOOSE i \in 1..Len(data.s) : IdxKey(i) = n]>>)]
              [] OTHER -> EmptyFields
    IN  Obj([n \in (DOMAIN base) \cup (DOMAIN props) |->
                IF n \in DOMAIN props THEN props[n] ELSE base[n]])

\* jsonSuccess(data): no status is given, so the response is a 200
jsonSuccess(data) ==
    Response(JsonStringify(SpreadSuccess(data)), 200, ApplicationJson)

\* ------------------------------------------------------------ fetch: auth and path

Bearer7 == <<"B", "e", "a", "r", "e", "r", " ">>

\* request.headers.get(name): null when the header is absent
HeaderGet(headers, name) ==
    IF name \in DOMAIN headers THEN headers[name] ELSE Null

\* request.headers.get("Authorization") || ""
AuthHeader(request) ==
    LET h == HeaderGet(request.headers, "authorization")
    IN  IF Truthy(h) THEN h ELSE Str(<<>>)

\* BearerToken without trim(): spaces after "Bearer " stay in the token
BearerTokenUntrimmed(authHeader) ==
    IF StartsWith(authHeader.s, Bearer7)
    THEN Str(SliceFrom(authHeader.s, 7))
    ELSE Null

\* authHeader.startsWith("Bearer ") ? authHeader.slice(7).trim() : null
BearerToken(authHeader) ==
    IF StartsWith(authHeader.s, Bearer7)
    THEN Str(Trim(SliceFrom(authHeader.s, 7)))
    ELSE Null

\* AuthFails written with != : null != undefined is false, so a request
\* without a Bearer token passes when the master token is not configured
AuthFailsLooseEquality(request, env) ==
    LET token == BearerToken(AuthHeader(request))
        masterToken == EnvGet(env, C_GATEWAY_TOKEN_NAME)
    IN  ~(StrictEq(token, masterToken)
          \/ (token.k \in {"null", "undefined"}
              /\ masterToken.k \in {"null", "undefined"}))

\* the guard of the 401: token !== masterToken
AuthFails(request, env) ==
    ~StrictEq(BearerToken(AuthHeader(request)), EnvGet(env, C_GATEWAY_TOKEN_NAME))

\* path.split('/') without the filter: empty pieces count as segments
PathSegmentsUnfiltered(path) == SplitSlash(path, <<>>)

\* path.split('/').filter(Boolean)
PathSegments(path) == FilterNonEmpty(SplitSlash(path, <<>>))

\* `${pathSegments[0]}/${pathSegments[1]}`
LookupKey(segs) == segs[1] \o <<"/">> \o segs[2]

\* '/' + pathSegments.slice(1).join('/')
InternalPath(segs) == <<"/">> \o JoinSlash(SubSeq(segs, 2, Len(segs)))

\* ------------------------------------------------------------ findConfigFromDB

\* DbConfig without the inner try: the row's text is returned as it is
\* when it does not parse
DbConfigUnparsedText(ans) ==
    IF ans.o = "throw" THEN Null
    ELSE IF ans.o = "none" \/ Len(ans.rows) = 0 THEN Null
    ELSE LET row == ans.rows[1]
         IN  IF ~row.has \/ ~TextNonEmpty(row.t1) THEN Null
             ELSE IF JsonParseThrows(row.t1) THEN Str(row.t1.s)
             ELSE JsonParse(row.t1)

\* what findConfigFromDB returns once the query has answered
DbConfig(ans) ==
    IF ans.o = "throw" THEN Null
    ELSE IF ans.o = "none" \/ Len(ans.rows) = 0 THEN Null
    ELSE LET row == ans.rows[1]
         IN  IF ~row.has \/ ~TextNonEmpty(row.t1) THEN Null
             ELSE IF JsonParseThrows(row.t1) THEN Null
             ELSE JsonParse(row.t1)

\* ------------------------------------------------------------ handleRest

\* `${x}` for the values the program interpolates
Interpolate(x) ==
    CASE x.k = "string" -> x.s
      [] x.k = "undefined" -> <<"undefined">>
      [] x.k = "null" -> <<"null">>
      [] OTHER -> <<"[object]">>

\* A request or response body: none (null), or a stream carrying a text
NoBody == [has |-> FALSE, text |-> EmptyText]
Body(text) == [has |-> TRUE, text |-> text]

\* await body.text(): a null body reads as ""
ReadText(body) == IF body.has THEN body.text ELSE EmptyText

\* The value handed to `new Request(url, {body})`: null, a string, or the
\* stream object request.body that was read BEFORE request.clone()
BodyNull == [kind |-> "null", text |-> EmptyText]
BodyString(text) == [kind |-> "string", text |-> text]
BodyStream(text) == [kind |-> "stream", text |-> text]

\* config.targetUrl.endsWith('/') ? config.targetUrl.slice(0, -1) : config.targetUrl
CleanedTargetUrl(config) ==
    LET u == Get(config, "targetUrl").s
    IN  IF EndsWith(u, <<"/">>) THEN SubSeq(u, 1, Len(u) - 1) ELSE u

\* cleanedTargetUrl + internalPath + url.search
FinalUrl(config, internalPath, search) ==
    CleanedTargetUrl(config) \o internalPath \o search

\* the statements inside the inner try throw a TypeError: a property is
\* created on, or `in` is applied to, a primitive or null (module code is
\* strict)
EditThrows(data, config) == ~IsObjectLike(data)

\* EditTableName injecting only when the client sent no table_name
EditTableNameKeepsClient(data, config) ==
    IF Truthy(Get(config, "table_name"))
    THEN IF data.k = "object" /\ ~HasKey(data, "table_name")
         THEN SetKey(data, "table_name", Get(config, "table_name"))
         ELSE data
    ELSE IF HasKey(data, "table_name")
         THEN DeleteKey(data, "table_name")
         ELSE data

\* EditTableName without the else-branch that strips the client's field
EditTableNameNoStrip(data, config) ==
    IF Truthy(Get(config, "table_name")) /\ data.k = "object"
    THEN SetKey(data, "table_name", Get(config, "table_name"))
    ELSE data

\* data after the table_name edit, as JSON.stringify sees it: a property
\* set on an array is not an index and is not serialized
EditTableName(data, config) ==
    IF Truthy(Get(config, "table_name"))
    THEN IF data.k = "object"
         THEN SetKey(data, "table_name", Get(config, "table_name"))
         ELSE data
    ELSE IF HasKey(data, "table_name")
         THEN DeleteKey(data, "table_name")
         ELSE data

\* newBody: request.body unless the text is non-blank JSON that could be
\* edited, and then the re-serialized data
RestNewBody(request, config) ==
    LET original == IF request.body.has THEN BodyStream(request.body.text)
                    ELSE BodyNull
        text == ReadText(request.body)
    IN  IF TextNonEmpty(text) /\ TextTrimNonEmpty(text)
        THEN IF JsonParseThrows(text) THEN original
             ELSE IF EditThrows(JsonParse(text), config) THEN original
             ELSE BodyString(JsonStringify(EditTableName(JsonParse(text), config)))
        ELSE original

\* new Request(url, {body}) throws a TypeError when body is a stream that
\* is locked: request.clone() tees the original stream, which locks it, and
\* newBody still refers to that original stream
NewRequestThrows(newBody) == newBody.kind = "stream"

\* headers of requestToForward: a copy of the inbound headers, then
\* headers.set("Authorization", `Bearer ${token}`)
ForwardHeaders(request, token) ==
    [n \in (DOMAIN request.headers) \cup {"authorization"} |->
        IF n = "authorization" THEN Str(Bearer7 \o Interpolate(token))
        ELSE request.headers[n]]

\* requestToForward
ForwardRequest(request, env, config, internalPath) ==
    [to |-> "rest",
     url |-> FinalUrl(config, internalPath, request.search),
     headers |-> ForwardHeaders(request, EnvGet(env, Get(config, "authKeyEnvName"))),
     body |-> RestNewBody(request, config)]

\* statuses whose response may not carry a body
NullBodyStatus(status) == status \in {101, 204, 205, 304}

\* lines 46-55: what handleRest returns for the downstream response
RestRelay(response) ==
    IF response.body.has /\ ~JsonParseThrows(response.body.text)
    THEN jsonSuccess(JsonParse(response.body.text))
    ELSE \* response.json() rejected; it has consumed a non-null body
         IF response.body.has THEN Rejected("TypeError: body used")
         ELSE IF NullBodyStatus(response.status)
              THEN Rejected("TypeError: null body status")
              ELSE Response(ReadText(response.body), response.status,
                            IF Truthy(response.ctype) THEN response.ctype.s
                            ELSE <<"text/plain">>)

\* ------------------------------------------------------------ handleAbly

\* request.clone().json() rejects
AblyBodyThrows(request) == JsonParseThrows(ReadText(request.body))

\* btoa(str)
base64Encode(str) == <<"btoa(">> \o str \o <<")">>

\* internalPath.slice(1).replace('/', '.'): only the first slash is replaced
EventNameFirstSlashOnly(internalPath) ==
    LET rest == SliceFrom(internalPath, 1)
        slashes == {i \in 1..Len(rest) : rest[i] = "/"}
    IN  [i \in 1..Len(rest) |->
            IF i \in slashes /\ (\A j \in slashes : i <= j) THEN "." ELSE rest[i]]

\* internalPath.slice(1).replace(/\//g, '.')
EventName(internalPath) == ReplaceSlashByDot(SliceFrom(internalPath, 1))

\* publishRequest
PublishRequest(request, env, config, internalPath) ==
    [to |-> "ably",
     url |-> ABLY_PUBLISH_BASE_URL \o <<"/">>
                \o Interpolate(Get(config, "channelName")) \o <<"/", "messages">>,
     headers |-> [authorization |->
                    Str(<<"B", "a", "s", "i", "c", " ">>
                        \o base64Encode(Interpolate(EnvGet(env, Get(config, "authKeyEnvName")))
                                        \o <<":">>)),
                  content_type |-> Str(ApplicationJson)],
     body |-> BodyString(JsonStringify(Arr(<<
                Obj([name |-> Str(EventName(internalPath)),
                     data |-> JsonParse(ReadText(request.body))])>>)))]

\* lines 86-93
AblyRelay(config, publishResponse) ==
    IF publishResponse.status \in 200..299
    THEN jsonSuccess(Obj([status |-> Name("Accepted"),
                          message |-> Str(<<"Event published successfully to Ably channel: ">>
                                          \o Interpolate(Get(config, "channelName")))]))
    ELSE jsonError(<<"Failed to publish event to Ably: ">>
                   \o ReadText(publishResponse.body).s, 502)

\* ------------------------------------------------------------ inputs

TokA == <<"k", "1">>
TokB == <<"k", "2">>

EnvFull ==
    [DAGATEWAYTOKEN |-> Str(TokA), DB |-> D1("db1"),
     SVC_KEY |-> Str(<<"svc-secret">>), ABLY_KEY |-> Str(<<"ably-secret">>)]
\* no store bound, no downstream secrets
EnvBare == [DAGATEWAYTOKEN |-> Str(TokA)]
\* the master token is not configured
EnvNoToken ==
    [DB |-> D1("db1"), SVC_KEY |-> Str(<<"svc-secret">>),
     ABLY_KEY |-> Str(<<"ably-secret">>)]
\* another deployment: another store, another downstream secret
EnvOther ==
    [DAGATEWAYTOKEN |-> Str(TokA), DB |-> D1("db2"),
     SVC_KEY |-> Str(<<"svc-secret-2">>), ABLY_KEY |-> Str(<<"ably-secret-2">>)]

\* a store is bound but the REST secret is not
EnvNoSvc ==
    [DAGATEWAYTOKEN |-> Str(TokA), DB |-> D1("db1"),
     ABLY_KEY |-> Str(<<"ably-secret">>)]

Envs == {EnvFull, EnvBare, EnvNoToken, EnvOther, EnvNoSvc}

Trace == [x_trace |-> Str(<<"t-77">>)]
WithAuth(chars) == [authorization |-> Str(chars), x_trace |-> Str(<<"t-77">>)]

GoodHeaders == WithAuth(Bearer7 \o TokA)
HeaderSets ==
    {Trace,
     GoodHeaders,
     WithAuth(Bearer7 \o <<" ">> \o TokA),
     WithAuth(Bearer7 \o TokB),
     WithAuth(<<"B", "a", "s", "i", "c", " ">> \o TokA),
     WithAuth(TokA),
     WithAuth(<<"B", "e", "a", "r", "e", "r">>),
     WithAuth(Bearer7 \o <<"u", "n", "d", "e", "f", "i", "n", "e", "d">>)}

Paths ==
    {<<"/">>,
     <<"/", "v1">>,
     <<"/", "v1", "/", "/">>,
     <<"/", "v1", "/", "users">>,
     <<"/", "v1", "/", "users", "/", "5">>,
     <<"/", "/", "v1", "/", "events", "/", "orders", "/", "created">>,
     <<"/", "v2", "/", "orders", "/", "9">>,
     <<"/", "v2", "/", "open", "/", "x">>,
     <<"/", "v2", "/", "bus", "/", "audit", "/", "login", "/">>,
     <<"/", "v2", "/", "inv", "/", "7">>,
     <<"/", "v2", "/", "nourl">>,
     <<"/", "v2", "/", "ftp">>,
     <<"/", "v2", "/", "notype">>,
     <<"/", "v2", "/", "bad">>,
     <<"/", "v2", "/", "blank">>,
     <<"/", "v2", "/", "jnull">>,
     <<"/", "v2", "/", "boom">>,
     <<"/", "v2", "/", "void">>,
     <<"/", "v2", "/", "nowhere">>}

\* the paths that reach an adapter under EnvFull
AdapterPaths ==
    {<<"/", "v1", "/", "users", "/", "5">>,
     <<"/", "/", "v1", "/", "events", "/", "orders", "/", "created">>,
     <<"/", "v2", "/", "orders", "/", "9">>,
     <<"/", "v2", "/", "inv", "/", "7">>,
     <<"/", "v2", "/", "open", "/", "x">>}

ObjPlain == Obj([id |-> Num("1")])
ObjEvil == Obj([id |-> Num("1"), table_name |-> Name("evil")])

Bodies ==
    {NoBody,
     Body(EmptyText),
     Body(RawText(<<" ">>)),
     Body(RawText(<<"not json">>)),
     Body(JsonText(ObjPlain, FALSE)),
     Body(JsonText(ObjEvil, TRUE)),
     Body(JsonText(Arr(<<Num("1")>>), FALSE)),
     Body(JsonText(Num("5"), FALSE)),
     Body(JsonText(Str(<<"h", "i">>), FALSE)),
     Body(JsonText(Null, FALSE))}

Req(env, headers, path, search, body) ==
    [env |-> env, headers |-> headers, path |-> path, search |-> search,
     body |-> body]

NoRequest == Req(EnvBare, Trace, <<"/">>, <<>>, NoBody)

\* The requests of the model: every header against every env on one route,
\* every path and every body under the well-formed header
Requests ==
    {Req(e, h, <<"/", "v1", "/", "users", "/", "5">>, <<>>, Body(JsonText(ObjEvil, TRUE))) :
        e \in Envs, h \in HeaderSets}
    \cup {Req(e, h, <<"/", "v1">>, <<>>, NoBody) : e \in {EnvFull}, h \in HeaderSets}
    \cup {Req(e, GoodHeaders, p, <<"?q=1">>, Body(JsonText(ObjPlain, FALSE))) :
            e \in Envs \ {EnvNoToken}, p \in Paths}
    \cup {Req(EnvFull, GoodHeaders, p, <<>>, b) : p \in AdapterPaths, b \in Bodies}

\* The requests of the second, concurrent handler
BackgroundRequests ==
    {Req(EnvOther, GoodHeaders, <<"/", "v2", "/", "orders", "/", "9">>, <<>>,
         Body(JsonText(ObjPlain, FALSE))),
     Req(EnvBare, GoodHeaders, <<"/", "v2", "/", "orders", "/", "9">>, <<>>, NoBody),
     Req(EnvFull, Trace, <<"/", "v1", "/", "users">>, <<>>, NoBody)}

\* What a downstream REST service may answer
DownResponse(status, ctype, body) ==
    [status |-> status, ctype |-> ctype, body |-> body, got |-> "response"]
DownstreamResponses ==
    {DownResponse(200, Str(ApplicationJson), Body(JsonText(ObjPlain, TRUE))),
     DownResponse(404, Str(ApplicationJson),
                  Body(JsonText(Obj([error |-> Name("nf")]), FALSE))),
     DownResponse(200, Str(ApplicationJson),
                  Body(JsonText(Obj([success |-> Bool("false")]), FALSE))),
     DownResponse(200, Str(ApplicationJson), Body(JsonText(Arr(<<Num("1")>>), FALSE))),
     DownResponse(200, Str(<<"text/plain">>), Body(RawText(<<"OK">>))),
     DownResponse(503, Str(<<"text/html">>), Body(RawText(<<"<h1>busy</h1>">>))),
     DownResponse(200, Null, NoBody),
     DownResponse(204, Null, NoBody)}

\* no answer yet, and the rejection of `await fetch(...)`
NoReply == [status |-> 0, ctype |-> Null, body |-> NoBody, got |-> "none"]
NetworkFailure == [status |-> 0, ctype |-> Null, body |-> NoBody, got |-> "failure"]

\* What the bus may answer to a publish
BusResponses ==
    {DownResponse(201, Str(ApplicationJson), Body(RawText(<<>>))),
     DownResponse(401, Str(ApplicationJson), Body(RawText(<<"bad key">>)))}

\* ------------------------------------------------------------ state

\* the number of requests the worker receives in a run
MaxArrivals == 2

\* the handlers that may be in flight at once (fetch invocations interleave
\* at their awaits)
Slots == {1, 2}

RequestsOf(s) == IF s = 1 THEN Requests ELSE BackgroundRequests

VARIABLES
    G_DB,       \* the module-level `let G_DB`
    pc,         \* per handler: the await it is suspended at
    request,    \* per handler: the (request, env) fetch was called with
    config,     \* per handler: fetch's local `config`
    response,   \* per handler: what fetch's promise settled with
    calls,      \* per handler: the network calls issued so far, in order
    reply,      \* per handler: what the adapter's downstream call settled with
    arrivals    \* requests received so far

vars == <<G_DB, pc, request, config, response, calls, reply, arrivals>>

Init ==
    /\ G_DB = Null
    /\ pc = [s \in Slots |-> "idle"]
    /\ request = [s \in Slots |-> NoRequest]
    /\ config = [s \in Slots |-> Undefined]
    /\ response = [s \in Slots |-> NoResponse]
    /\ calls = [s \in Slots |-> <<>>]
    /\ reply = [s \in Slots |-> NoReply]
    /\ arrivals = 0

Segs(rq) == PathSegments(rq.path)
InternalPathOf(rq) == InternalPath(Segs(rq))

\* The try/catch of lines 155-167 around `return handleRest(...)` and
\* `return handleAbly(...)`: the adapter's promise is returned without
\* await, so the catch sees only a synchronous throw of the switch itself;
\* a rejection of the adapter's promise settles fetch's promise unchanged
DispatchBoundary(result) == result

\* MissingSecret testing `!env` instead of `!env[...]`: env is an object
MissingSecretTestsEnv(env, c) ==
    /\ Truthy(Get(c, "authKeyEnvName"))
    /\ ~Truthy(Obj(env))

\* line 148: config.authKeyEnvName && !env[config.authKeyEnvName]
MissingSecret(env, c) ==
    /\ Truthy(Get(c, "authKeyEnvName"))
    /\ ~Truthy(EnvGet(env, Get(c, "authKeyEnvName")))

\* switch (config.type || 'REST'): a config without type is forwarded
ServiceTypeDefaultsToRest(c) ==
    IF Truthy(Get(c, "type")) THEN Get(c, "type") ELSE Name("REST")

\* line 156: switch (config.type)
ServiceType(c) == Get(c, "type")

\* lines 144-163, and the adapter's statements up to its first await:
\* where the handler goes once `config` is known
AfterResolve(rq, c) ==
    IF ~Truthy(c)
    THEN [pc |-> "done",
          resp |-> jsonError(<<"Endpoint Not Found or Unsupported Version">>, 404)]
    ELSE IF MissingSecret(rq.env, c)
    THEN [pc |-> "done",
          resp |-> jsonError(<<"Gateway configuration error: Missing Secret Key for Downstream Service">>, 500)]
    ELSE IF StrictEq(ServiceType(c), Name("REST"))
    THEN IF Get(c, "targetUrl").k # "string"
         THEN \* line 6: config.targetUrl.endsWith throws a TypeError
              [pc |-> "done",
               resp |-> DispatchBoundary(Rejected("TypeError: targetUrl"))]
         ELSE [pc |-> "rest_body", resp |-> NoResponse]
    ELSE IF StrictEq(ServiceType(c), Name("ABLY"))
    THEN [pc |-> "ably_body", resp |-> NoResponse]
    ELSE [pc |-> "done",
          resp |-> jsonError(<<"Unsupported service type: ">>
                             \o Interpolate(Get(c, "type")), 501)]

\* `SELECT t1 FROM ${C_RouteTableName} WHERE c1 = ? LIMIT 1`, bound to key,
\* on database db
StoreQuery(db, key) ==
    [to |-> "store", db |-> db, table |-> C_RouteTableName.s, key |-> key]

\* G_DB = G_DB || env.DB: the handle of the first request is kept
GlobalDbCachedOnce(old, envDb) == IF Truthy(old) THEN old ELSE envDb

\* line 124: G_DB = env.DB, whatever the module-global held before
GlobalDbAtEntry(old, envDb) == envDb

\* fetch(request, env), lines 124-143, up to its first await
FetchEntry(s) ==
    /\ pc[s] \in {"idle", "done"}
    /\ arrivals < MaxArrivals
    /\ \E rq \in RequestsOf(s) :
        LET segs == Segs(rq)
            static == StaticLookup(LookupKey(segs))
            go == AfterResolve(rq, static)
        IN  /\ G_DB' = GlobalDbAtEntry(G_DB, EnvGet(rq.env, Name("DB")))
            /\ request' = [request EXCEPT ![s] = rq]
            /\ arrivals' = arrivals + 1
            /\ reply' = [reply EXCEPT ![s] = NoReply]
            /\ IF AuthFails(rq, rq.env)
               THEN /\ pc' = [pc EXCEPT ![s] = "done"]
                    /\ response' = [response EXCEPT ![s] = jsonError(<<"Unauthorized">>, 401)]
                    /\ config' = [config EXCEPT ![s] = Undefined]
                    /\ calls' = [calls EXCEPT ![s] = <<>>]
               ELSE IF Len(segs) < 2
               THEN /\ pc' = [pc EXCEPT ![s] = "done"]
                    /\ response' = [response EXCEPT ![s] =
                            jsonError(<<"Invalid API Path Format. Expected /{version}/{module}/...">>, 400)]
                    /\ config' = [config EXCEPT ![s] = Undefined]
                    /\ calls' = [calls EXCEPT ![s] = <<>>]
               ELSE IF Truthy(static)
               THEN /\ pc' = [pc EXCEPT ![s] = go.pc]
                    /\ response' = [response EXCEPT ![s] = go.resp]
                    /\ config' = [config EXCEPT ![s] = static]
                    /\ calls' = [calls EXCEPT ![s] = <<>>]
               ELSE IF ~Truthy(G_DB')
               THEN \* findConfigFromDB: if (!G_DB) return null
                    /\ pc' = [pc EXCEPT ![s] = "resolved"]
                    /\ response' = [response EXCEPT ![s] = NoResponse]
                    /\ config' = [config EXCEPT ![s] = Null]
                    /\ calls' = [calls EXCEPT ![s] = <<>>]
               ELSE \* await G_DB.prepare(query).bind(key).all()
                    /\ pc' = [pc EXCEPT ![s] = "db_wait"]
                    /\ response' = [response EXCEPT ![s] = NoResponse]
                    /\ config' = [config EXCEPT ![s] = Undefined]
                    /\ calls' = [calls EXCEPT ![s] =
                            <<StoreQuery(G_DB'.s[1], LookupKey(segs))>>]

\* findConfigFromDB, lines 102-118: the query answers and the function
\* returns the parsed row, or null
DbReply(s) ==
    /\ pc[s] = "db_wait"
    /\ LET q == calls[s][Len(calls[s])]
       IN  config' = [config EXCEPT ![s] = DbConfig(StoreAnswer(q.db, q.key))]
    /\ pc' = [pc EXCEPT ![s] = "resolved"]
    /\ UNCHANGED <<G_DB, request, response, calls, reply, arrivals>>

\* fetch resumes after `await findConfigFromDB(lookupKey)`, lines 143-163
Dispatch(s) ==
    /\ pc[s] = "resolved"
    /\ LET go == AfterResolve(request[s], config[s])
       IN  /\ pc' = [pc EXCEPT ![s] = go.pc]
           /\ response' = [response EXCEPT ![s] = go.resp]
    /\ UNCHANGED <<G_DB, request, config, calls, reply, arrivals>>

\* handleRest after `await clone.text()`, lines 17-44: the body is edited,
\* requestToForward is built and sent
RestForward(s) ==
    /\ pc[s] = "rest_body"
    /\ LET rq == request[s]
           fwd == ForwardRequest(rq, rq.env, config[s], InternalPathOf(rq))
       IN  IF NewRequestThrows(fwd.body)
           THEN /\ pc' = [pc EXCEPT ![s] = "done"]
                /\ response' = [response EXCEPT ![s] =
                        DispatchBoundary(Rejected("TypeError: locked stream"))]
                /\ calls' = calls
           ELSE /\ pc' = [pc EXCEPT ![s] = "rest_wait"]
                /\ response' = response
                /\ calls' = [calls EXCEPT ![s] = Append(@, fwd)]
    /\ UNCHANGED <<G_DB, request, config, reply, arrivals>>

\* handleRest after `await fetch(requestToForward)`, lines 44-55
RestReply(s) ==
    /\ pc[s] = "rest_wait"
    /\ \E r \in DownstreamResponses :
        /\ reply' = [reply EXCEPT ![s] = r]
        /\ response' = [response EXCEPT ![s] = DispatchBoundary(RestRelay(r))]
    /\ pc' = [pc EXCEPT ![s] = "done"]
    /\ UNCHANGED <<G_DB, request, config, calls, arrivals>>

\* a rejected forward is sent a second time before the handler gives up
RestFailRetriesOnce(s) ==
    /\ pc[s] = "rest_wait"
    /\ reply' = [reply EXCEPT ![s] = NetworkFailure]
    /\ IF Cardinality({i \in 1..Len(calls[s]) : calls[s][i].to = "rest"}) < 2
       THEN /\ calls' = [calls EXCEPT ![s] = Append(@, @[Len(@)])]
            /\ UNCHANGED <<response, pc>>
       ELSE /\ response' = [response EXCEPT ![s] =
                    DispatchBoundary(Rejected("network error"))]
            /\ pc' = [pc EXCEPT ![s] = "done"]
            /\ calls' = calls
    /\ UNCHANGED <<G_DB, request, config, arrivals>>

\* `await fetch(requestToForward)` rejects: the downstream is unreachable
RestFail(s) ==
    /\ pc[s] = "rest_wait"
    /\ reply' = [reply EXCEPT ![s] = NetworkFailure]
    /\ response' = [response EXCEPT ![s] = DispatchBoundary(Rejected("network error"))]
    /\ pc' = [pc EXCEPT ![s] = "done"]
    /\ UNCHANGED <<G_DB, request, config, calls, arrivals>>

\* handleAbly after `await request.clone().json()`, lines 63-84
AblyPublish(s) ==
    /\ pc[s] = "ably_body"
    /\ LET rq == request[s]
       IN  IF AblyBodyThrows(rq)
           THEN /\ pc' = [pc EXCEPT ![s] = "done"]
                /\ response' = [response EXCEPT ![s] = DispatchBoundary(
                        jsonError(<<"ABLY event body must be valid JSON for path: ">>
                                  \o InternalPathOf(rq), 400))]
                /\ calls' = calls
           ELSE /\ pc' = [pc EXCEPT ![s] = "ably_wait"]
                /\ response' = response
                /\ calls' = [calls EXCEPT ![s] =
                        Append(@, PublishRequest(rq, rq.env, config[s], InternalPathOf(rq)))]
    /\ UNCHANGED <<G_DB, request, config, reply, arrivals>>

\* handleAbly after `await fetch(publishRequest)`, lines 84-93
AblyReply(s) ==
    /\ pc[s] = "ably_wait"
    /\ \E r \in BusResponses :
        /\ reply' = [reply EXCEPT ![s] = r]
        /\ response' = [response EXCEPT ![s] = DispatchBoundary(AblyRelay(config[s], r))]
    /\ pc' = [pc EXCEPT ![s] = "done"]
    /\ UNCHANGED <<G_DB, request, config, calls, arrivals>>

\* `await fetch(publishRequest)` rejects: the bus is unreachable
AblyFail(s) ==
    /\ pc[s] = "ably_wait"
    /\ reply' = [reply EXCEPT ![s] = NetworkFailure]
    /\ response' = [response EXCEPT ![s] = DispatchBoundary(Rejected("network error"))]
    /\ pc' = [pc EXCEPT ![s] = "done"]
    /\ UNCHANGED <<G_DB, request, config, calls, arrivals>>

Next ==
    \E s \in Slots :
        \/ FetchEntry(s)
        \/ DbReply(s)
        \/ Dispatch(s)
        \/ RestForward(s)
        \/ RestReply(s)
        \/ RestFail(s)
        \/ AblyPublish(s)
        \/ AblyReply(s)
        \/ AblyFail(s)

Spec == Init /\ [][Next]_vars

\* ------------------------------------------------------------ properties

\* The request carries `Authorization: Bearer <master token>`: the header
\* is present, starts with "Bearer ", and its trimmed remainder is the
\* master token the env configures
Authentic(rq) ==
    /\ "authorization" \in DOMAIN rq.headers
    /\ StartsWith(rq.headers["authorization"].s, Bearer7)
    /\ "DAGATEWAYTOKEN" \in DOMAIN rq.env
    /\ Trim(SliceFrom(rq.headers["authorization"].s, 7)) = rq.env["DAGATEWAYTOKEN"].s

\* the number of network calls of one kind a handler has issued
CountCalls(s, kind) ==
    Cardinality({i \in 1..Len(calls[s]) : calls[s][i].to = kind})

\* the response is the JSON error envelope with this status and message
IsError(resp, status, msg) ==
    /\ resp.kind = "response"
    /\ resp.status = status
    /\ resp.body.t = "json"
    /\ resp.body.j = Obj([success |-> Bool("false"), error |-> Str(msg)])

\* the route key of a request with at least two path segments
HasKeyPath(rq) ==
    Cardinality({i \in 1..Len(rq.path) : rq.path[i] # "/"}) >= 2
RouteKey(rq) ==
    LET names == SelectSeq(rq.path, LAMBDA t : t # "/")
    IN  <<names[1], "/", names[2]>>

\* C1: a request whose Authorization header is missing, is not a Bearer
\* header, or carries another token than the master token is answered
\* 401 "Unauthorized", and no store query, forwarded call or publish is
\* issued at any point of its handling.
C1_Unauthorized ==
    \A s \in Slots :
        (pc[s] # "idle" /\ ~Authentic(request[s]))
            => /\ pc[s] = "done"
               /\ IsError(response[s], 401, <<"Unauthorized">>)
               /\ calls[s] = <<>>

C1_Witness ==
    \E s \in Slots :
        /\ pc[s] = "done"
        /\ "authorization" \in DOMAIN request[s].headers
        /\ request[s].headers["authorization"] = Str(Bearer7 \o TokB)
        /\ request[s].env = EnvFull
        /\ response[s].status = 401

\* C2: an error raised by an adapter (a rejected downstream fetch
\* included) is turned into the 500 "Gateway processing failed" response:
\* fetch never settles with the adapter's error.
C2_AdapterErrorsCaught ==
    \A s \in Slots :
        (pc[s] = "done" /\ reply[s].got = "failure")
            => IsError(response[s], 500, <<"Gateway processing failed">>)

\* the resolved config declares a secret that the request's env lacks
DeclaresAbsentSecret(s) ==
    /\ pc[s] \notin {"idle", "db_wait"}
    /\ config[s].k = "object"
    /\ "authKeyEnvName" \in DOMAIN config[s].f
    /\ config[s].f["authKeyEnvName"].k = "string"
    /\ config[s].f["authKeyEnvName"].s # <<>>
    /\ config[s].f["authKeyEnvName"].s[1] \notin DOMAIN request[s].env

\* C3: when the resolved config declares an authKeyEnvName that env does
\* not hold, the answer is the 500 configuration error and no adapter runs:
\* no forwarded call and no publish is issued.
C3_MissingSecret ==
    \A s \in Slots :
        DeclaresAbsentSecret(s)
            => /\ pc[s] \in {"resolved", "done"}
               /\ pc[s] = "done" =>
                    IsError(response[s], 500,
                        <<"Gateway configuration error: Missing Secret Key for Downstream Service">>)
               /\ CountCalls(s, "rest") = 0
               /\ CountCalls(s, "ably") = 0

C3_Witness ==
    \E s \in Slots :
        /\ DeclaresAbsentSecret(s)
        /\ pc[s] = "done"
        /\ response[s].status = 500
        /\ config[s] = SERVICE_MAP[<<"v1", "/", "users">>]

\* C4: a route key of the static table resolves to the static config and
\* the store is never queried for it, whatever row the store holds for
\* that key.
C4_StaticFirst ==
    \A s \in Slots :
        (pc[s] # "idle" /\ Authentic(request[s]) /\ HasKeyPath(request[s])
         /\ RouteKey(request[s]) \in DOMAIN SERVICE_MAP)
            => /\ config[s] = SERVICE_MAP[RouteKey(request[s])]
               /\ CountCalls(s, "store") = 0

\* the store of the request's env holds another config for the same key
C4_Witness ==
    \E s \in Slots :
        /\ pc[s] = "rest_wait"
        /\ request[s].env = EnvFull
        /\ RouteKey(request[s]) = <<"v1", "/", "users">>
        /\ StoreAnswer("db1", RouteKey(request[s])) = Row(JsonText(CfgShadow, FALSE))
        /\ config[s] = SERVICE_MAP[<<"v1", "/", "users">>]
        /\ CountCalls(s, "store") = 0

\* the request is authenticated and its route key is not in the static table
StaticMiss(s) ==
    /\ pc[s] # "idle"
    /\ Authentic(request[s])
    /\ HasKeyPath(request[s])
    /\ RouteKey(request[s]) \notin DOMAIN SERVICE_MAP

\* the store row the request's env would answer its key with is unusable:
\* the query throws, there is no row, or the row is not JSON
StoreUnusable(s) ==
    LET ans == StoreAnswer(request[s].env["DB"].s[1], RouteKey(request[s]))
    IN  \/ ans.o \in {"throw", "none"}
        \/ ans.rows = <<>>
        \/ ans.rows[1].has /\ ans.rows[1].t1.t = "raw"

NotFound404(s) ==
    IsError(response[s], 404, <<"Endpoint Not Found or Unsupported Version">>)

\* C5 as stated: every route key absent from the static table makes the
\* resolution query the store exactly once, and the answer is 404 when the
\* query throws, finds no row, or finds a row that is not JSON.
C5_Original ==
    \A s \in Slots :
        StaticMiss(s)
            => /\ CountCalls(s, "store") = 1
               /\ ("DB" \in DOMAIN request[s].env /\ StoreUnusable(s) /\ pc[s] = "done")
                    => NotFound404(s)

\* C5, amended: a route key absent from the static table makes the
\* resolution query the store exactly once when env binds a store (env.DB)
\* and not at all when it binds none; the answer is 404 when no store is
\* bound, the query throws, finds no row, or finds a row that is not JSON.
C5_StoreOnceOrNotFound ==
    \A s \in Slots :
        StaticMiss(s)
            => /\ CountCalls(s, "store") =
                    (IF "DB" \in DOMAIN request[s].env THEN 1 ELSE 0)
               /\ pc[s] = "done" =>
                    /\ "DB" \notin DOMAIN request[s].env => NotFound404(s)
                    /\ ("DB" \in DOMAIN request[s].env /\ StoreUnusable(s))
                            => NotFound404(s)

C5_Witness ==
    \E s \in Slots :
        /\ StaticMiss(s)
        /\ pc[s] = "done"
        /\ "DB" \in DOMAIN request[s].env
        /\ StoreAnswer("db1", RouteKey(request[s])).o = "throw"
        /\ request[s].env = EnvFull
        /\ CountCalls(s, "store") = 1
        /\ NotFound404(s)

\* the handler ran the adapter of this type: the request is authenticated,
\* its config has the type, the config's secret is in env
RanAdapter(s, type) ==
    /\ pc[s] \notin {"idle", "db_wait", "resolved"}
    /\ Authentic(request[s])
    /\ config[s].k = "object"
    /\ "type" \in DOMAIN config[s].f
    /\ config[s].f["type"] = Name(type)
    /\ ~DeclaresAbsentSecret(s)
    /\ type = "REST" => "targetUrl" \in DOMAIN config[s].f

\* the handler is past handleRest's `await fetch(requestToForward)`
RestAnswered(s) ==
    RanAdapter(s, "REST") /\ pc[s] = "done" /\ reply[s].got = "response"

\* the inbound body is a text that parses as JSON
InboundJson(s) == request[s].body.has /\ request[s].body.text.t = "json"

\* the inbound body is a non-blank text that does not parse as JSON
InboundUnparseable(s) ==
    /\ request[s].body.has
    /\ request[s].body.text.t = "raw"
    /\ \E i \in 1..Len(request[s].body.text.s) : request[s].body.text.s[i] # " "

\* the config has a (non-empty) table_name
TableNameSet(c) ==
    /\ c.k = "object"
    /\ "table_name" \in DOMAIN c.f
    /\ c.f["table_name"].k = "string"
    /\ c.f["table_name"].s # <<>>

\* the text is JSON for an object with a top-level table_name
NamesTable(text) ==
    text.t = "json" /\ text.j.k = "object" /\ "table_name" \in DOMAIN text.j.f

RestCalls(s) == {i \in 1..Len(calls[s]) : calls[s][i].to = "rest"}

\* C6: when the downstream REST service answers with a JSON body, the
\* gateway answers the success envelope holding exactly that JSON, and with
\* the downstream status when that status is not 2xx.
C6_JsonRelayedWithStatus ==
    \A s \in Slots :
        (RestAnswered(s) /\ reply[s].body.has /\ reply[s].body.text.t = "json"
         /\ reply[s].body.text.j.k = "object")
            => /\ response[s].kind = "response"
               /\ response[s].body.t = "json"
               /\ response[s].body.j.k = "object"
               /\ \A n \in DOMAIN reply[s].body.text.j.f :
                    /\ n \in DOMAIN response[s].body.j.f
                    /\ n # "success" =>
                        response[s].body.j.f[n] = reply[s].body.text.j.f[n]
               /\ reply[s].status \notin 200..299 =>
                    response[s].status = reply[s].status

\* C7: when the downstream REST body is not JSON, the gateway answers the
\* raw downstream text with the downstream status and content type.
C7_RawRelayed ==
    \A s \in Slots :
        (RestAnswered(s) /\ reply[s].body.has /\ reply[s].body.text.t = "raw")
            => /\ response[s].kind = "response"
               /\ response[s].body = reply[s].body.text
               /\ response[s].status = reply[s].status
               /\ response[s].ctype = reply[s].ctype.s

\* C8 as stated: with table_name set in the REST config, every inbound body
\* that parses as JSON (object, array, primitive or null) is forwarded with
\* a table_name field equal to config.table_name.
C8_Original ==
    \A s \in Slots :
        \A i \in RestCalls(s) :
            (TableNameSet(config[s]) /\ InboundJson(s))
                => /\ NamesTable(calls[s][i].body.text)
                   /\ calls[s][i].body.text.j.f["table_name"]
                        = config[s].f["table_name"]

\* C8, amended: with table_name set (to a non-empty value) in the REST
\* config, every inbound body that parses as a JSON object is forwarded
\* with a table_name field equal to config.table_name, whatever table_name
\* the client sent.
C8_TableNameInjected ==
    \A s \in Slots :
        (RanAdapter(s, "REST") /\ pc[s] \in {"rest_wait", "done"}
         /\ TableNameSet(config[s]) /\ InboundJson(s)
         /\ request[s].body.text.j.k = "object")
            => /\ RestCalls(s) # {}
               /\ \A i \in RestCalls(s) :
                    /\ NamesTable(calls[s][i].body.text)
                    /\ calls[s][i].body.text.j.f["table_name"]
                            = config[s].f["table_name"]

C8_Witness ==
    \E s \in Slots :
        /\ pc[s] = "rest_wait"
        /\ InboundJson(s)
        /\ request[s].body.text.j = ObjEvil
        /\ config[s] = CfgInventory
        /\ calls[s][Len(calls[s])].body.text.j.f["table_name"] = Name("inventory")

\* C9: without table_name in the REST config, no body forwarded for an
\* inbound JSON body has a top-level table_name field.
C9_TableNameStripped ==
    \A s \in Slots :
        \A i \in RestCalls(s) :
            (~TableNameSet(config[s]) /\ InboundJson(s))
                => ~NamesTable(calls[s][i].body.text)

C9_Witness ==
    \E s \in Slots :
        /\ pc[s] = "rest_wait"
        /\ InboundJson(s)
        /\ request[s].body.text.j = ObjEvil
        /\ config[s] = CfgOrders
        /\ calls[s][Len(calls[s])].body.text = JsonText(ObjPlain, FALSE)

\* the path handed to the adapter: the request's path segments after the
\* first, each preceded by a slash
RECURSIVE Slashed(_)
Slashed(names) ==
    IF names = <<>> THEN <<>> ELSE <<"/", Head(names)>> \o Slashed(Tail(names))
PathAfterVersion(rq) == Slashed(Tail(SelectSeq(rq.path, LAMBDA t : t # "/")))

\* C10: an inbound body that is not JSON is answered 400, with a message
\* that names the internal path, and nothing is published on an event-bus
\* route; on a REST route it is forwarded as it came and the request is
\* not rejected.
C10_UnparseableBody ==
    \A s \in Slots :
        (pc[s] = "done" /\ InboundUnparseable(s))
            => /\ RanAdapter(s, "ABLY") =>
                    /\ response[s].kind = "response"
                    /\ response[s].status = 400
                    /\ response[s].body.j.f["error"].s =
                        <<"ABLY event body must be valid JSON for path: ">>
                            \o PathAfterVersion(request[s])
                    /\ CountCalls(s, "ably") = 0
               /\ RanAdapter(s, "REST") =>
                    /\ response[s].kind = "response"
                    /\ \E i \in RestCalls(s) :
                        calls[s][i].body.text = request[s].body.text

\* the resolved config is an object whose type is neither REST nor ABLY,
\* a missing type included
UnsupportedType(s) ==
    /\ pc[s] \notin {"idle", "db_wait"}
    /\ Authentic(request[s])
    /\ config[s].k = "object"
    /\ \/ "type" \notin DOMAIN config[s].f
       \/ config[s].f["type"] \notin {Str(<<"REST">>), Str(<<"ABLY">>)}

\* the response is a JSON error envelope with this status
IsErrorStatus(resp, status) ==
    /\ resp.kind = "response"
    /\ resp.status = status
    /\ resp.body.t = "json"
    /\ resp.body.j.k = "object"
    /\ "success" \in DOMAIN resp.body.j.f
    /\ resp.body.j.f["success"] = Bool("false")

\* C11 as stated: every authenticated request whose resolved config has an
\* unsupported (or missing) type is answered 501 and no downstream call is
\* issued.
C11_Original ==
    \A s \in Slots :
        UnsupportedType(s)
            => /\ pc[s] \in {"resolved", "done"}
               /\ pc[s] = "done" => IsErrorStatus(response[s], 501)
               /\ CountCalls(s, "rest") = 0
               /\ CountCalls(s, "ably") = 0

\* C11: an authenticated request whose resolved config has an unsupported
\* (or missing) type, and whose declared secret, if any, is present in env,
\* is answered 501; with or without the secret no downstream call is
\* issued.
C11_UnsupportedType ==
    \A s \in Slots :
        UnsupportedType(s)
            => /\ pc[s] \in {"resolved", "done"}
               /\ (pc[s] = "done" /\ ~DeclaresAbsentSecret(s))
                    => IsErrorStatus(response[s], 501)
               /\ CountCalls(s, "rest") = 0
               /\ CountCalls(s, "ably") = 0

\* a store-supplied config without type, answered 501
C11_Witness ==
    \E s \in Slots :
        /\ UnsupportedType(s)
        /\ pc[s] = "done"
        /\ config[s] = CfgNoType
        /\ CountCalls(s, "store") = 1
        /\ response[s].status = 501

\* C12: an authenticated request whose path has fewer than two non-empty
\* segments is answered 400 "Invalid API Path Format..." with no route
\* resolution (no config, no store query) and no downstream call; the same
\* path without valid authentication is answered 401, not 400.
C12_ShortPath ==
    \A s \in Slots :
        (pc[s] # "idle" /\ ~HasKeyPath(request[s]))
            => /\ pc[s] = "done"
               /\ calls[s] = <<>>
               /\ config[s] = Undefined
               /\ IF Authentic(request[s])
                  THEN IsError(response[s], 400,
                        <<"Invalid API Path Format. Expected /{version}/{module}/...">>)
                  ELSE IsErrorStatus(response[s], 401)

\* one segment between empty ones, under the valid token and a bound store
C12_Witness ==
    \E s \in Slots :
        /\ pc[s] = "done"
        /\ request[s].path = <<"/", "v1", "/", "/">>
        /\ request[s].env = EnvFull
        /\ Authentic(request[s])
        /\ response[s].status = 400

\* the names joined by dots
RECURSIVE Dotted(_)
Dotted(names) ==
    IF Len(names) <= 1 THEN names
    ELSE <<Head(names), ".">> \o Dotted(Tail(names))

\* the publish calls a handler has issued
AblyCalls(s) == {i \in 1..Len(calls[s]) : calls[s][i].to = "ably"}

\* C13: on an event-bus route with a JSON inbound body exactly one message
\* is published, the one-element array [{name, data}] where data is the
\* inbound payload and name is the internal path (the path after the
\* version segment) without its leading slash and with dots for slashes.
C13_EventMessage ==
    \A s \in Slots :
        (RanAdapter(s, "ABLY") /\ InboundJson(s) /\ pc[s] \in {"ably_wait", "done"})
            => /\ Cardinality(AblyCalls(s)) = 1
               /\ \A i \in AblyCalls(s) :
                    /\ calls[s][i].body.kind = "string"
                    /\ calls[s][i].body.text.t = "json"
                    /\ calls[s][i].body.text.j =
                        Arr(<<Obj([name |-> Str(Dotted(Tail(SelectSeq(request[s].path,
                                                        LAMBDA t : t # "/")))),
                                   data |-> request[s].body.text.j])>>)

\* internal path /events/orders/created, published as events.orders.created
C13_Witness ==
    \E s \in Slots :
        /\ RanAdapter(s, "ABLY")
        /\ pc[s] = "done"
        /\ request[s].path = <<"/", "/", "v1", "/", "events", "/", "orders", "/", "created">>
        /\ request[s].body = Body(JsonText(ObjPlain, FALSE))
        /\ \E i \in AblyCalls(s) :
            calls[s][i].body.text.j.items[1].f["name"] =
                Str(<<"events", ".", "orders", ".", "created">>)

\* the publish call completed with an ok (2xx) response
PublishOk(s) == reply[s].got = "response" /\ reply[s].status \in 200..299

\* the response is the success envelope
IsSuccess(resp) ==
    /\ resp.kind = "response"
    /\ resp.status = 200
    /\ resp.body.t = "json"
    /\ resp.body.j.k = "object"
    /\ "success" \in DOMAIN resp.body.j.f
    /\ resp.body.j.f["success"] = Bool("true")

\* C14: on an event-bus route the success payload is returned only when
\* the publish call completed with an ok response; when the publish call
\* fails (non-ok response or network failure) the caller receives a 502
\* error response.
C14_PublishFailure ==
    \A s \in Slots :
        (RanAdapter(s, "ABLY") /\ pc[s] = "done" /\ AblyCalls(s) # {})
            => /\ IsSuccess(response[s]) => PublishOk(s)
               /\ ~PublishOk(s) => IsErrorStatus(response[s], 502)

\* the config a request resolves to when it is handled alone: the static
\* entry, else the parsed row of the store its own env binds, else null
OwnConfig(rq) ==
    IF RouteKey(rq) \in DOMAIN SERVICE_MAP THEN SERVICE_MAP[RouteKey(rq)]
    ELSE IF "DB" \notin DOMAIN rq.env THEN Null
    ELSE LET rows == StoreRows(rq.env["DB"].s[1])
         IN  IF RouteKey(rq) \in DOMAIN rows
                /\ rows[RouteKey(rq)].o = "rows"
                /\ Len(rows[RouteKey(rq)].rows) > 0
                /\ rows[RouteKey(rq)].rows[1].has
                /\ rows[RouteKey(rq)].rows[1].t1.t = "json"
             THEN rows[RouteKey(rq)].rows[1].t1.j
             ELSE Null

\* C15: whatever the interleaving of two handlers, a handler's store query
\* is issued on the store handle of its own env, and the config it resolves
\* (hence its response) is the one it resolves when handled alone: another
\* request's write of G_DB never redirects it.
C15_OwnStoreHandle ==
    \A s \in Slots :
        /\ \A i \in 1..Len(calls[s]) :
                calls[s][i].to = "store"
                    => /\ "DB" \in DOMAIN request[s].env
                       /\ calls[s][i].db = request[s].env["DB"].s[1]
        /\ (pc[s] \notin {"idle", "db_wait"} /\ Authentic(request[s])
            /\ HasKeyPath(request[s]))
                => config[s] = OwnConfig(request[s])

\* two store queries in flight on two handles, G_DB holding the other one
C15_Witness ==
    \E s, o \in Slots :
        /\ pc[s] = "db_wait" /\ pc[o] = "db_wait"
        /\ calls[s][1].db = "db1" /\ calls[o][1].db = "db2"
        /\ request[s].env["DB"] = D1("db1")
        /\ G_DB = D1("db2")

\* C16: one handling of a request issues at most one store query and at
\* most one downstream call (forwarded REST call or publish), whatever the
\* call's outcome: a failed call is not issued again.
C16_NoRetry ==
    \A s \in Slots :
        /\ CountCalls(s, "store") <= 1
        /\ CountCalls(s, "rest") + CountCalls(s, "ably") <= 1
        /\ Len(calls[s]) <= 2

\* a store-resolved REST route whose forwarded call failed
C16_Witness ==
    \E s \in Slots :
        /\ pc[s] = "done"
        /\ reply[s].got = "failure"
        /\ CountCalls(s, "store") = 1
        /\ CountCalls(s, "rest") = 1

\* the config declares a secret name and the request's env holds a
\* non-empty secret under it
SecretOf(s) ==
    IF /\ config[s].k = "object"
       /\ "authKeyEnvName" \in DOMAIN config[s].f
       /\ config[s].f["authKeyEnvName"].k = "string"
       /\ Len(config[s].f["authKeyEnvName"].s) = 1
       /\ config[s].f["authKeyEnvName"].s[1] \in DOMAIN request[s].env
       /\ request[s].env[config[s].f["authKeyEnvName"].s[1]].k = "string"
       /\ request[s].env[config[s].f["authKeyEnvName"].s[1]].s # <<>>
    THEN request[s].env[config[s].f["authKeyEnvName"].s[1]].s
    ELSE <<>>

\* C17: the request forwarded on a REST route carries every inbound header
\* unchanged except Authorization, which is "Bearer " followed by the
\* downstream secret that config.authKeyEnvName names; the inbound
\* Authorization value (the master token) is not forwarded.
C17_ForwardedHeaders ==
    \A s \in Slots : \A i \in RestCalls(s) :
        /\ DOMAIN calls[s][i].headers = DOMAIN request[s].headers \cup {"authorization"}
        /\ \A n \in DOMAIN request[s].headers \ {"authorization"} :
                calls[s][i].headers[n] = request[s].headers[n]
        /\ calls[s][i].headers["authorization"] # request[s].headers["authorization"]
        /\ SecretOf(s) # <<>>
        /\ calls[s][i].headers["authorization"] =
                Str(<<"B", "e", "a", "r", "e", "r", " ">> \o SecretOf(s))

\* the handler answered the 401 of the authentication test
Rejected401(s) ==
    pc[s] = "done" /\ IsError(response[s], 401, <<"Unauthorized">>) /\ calls[s] = <<>>

\* C18: a request passes authentication exactly when its Authorization
\* header starts with "Bearer " and the trimmed remainder equals the master
\* token of env; when env holds no master token no request passes,
\* whatever its header.
C18_AuthExactly ==
    \A s \in Slots :
        pc[s] # "idle"
            => /\ Rejected401(s) <=> ~Authentic(request[s])
               /\ "DAGATEWAYTOKEN" \notin DOMAIN request[s].env => Rejected401(s)

\* two spaces after "Bearer": the trimmed remainder is the master token and
\* the request is forwarded
C18_Witness ==
    \E s \in Slots :
        /\ pc[s] = "rest_wait"
        /\ request[s].headers = WithAuth(Bearer7 \o <<" ">> \o TokA)
        /\ request[s].env = EnvFull
        /\ CountCalls(s, "rest") = 1

\* C19: every downstream call (forwarded REST request or publish) carries
\* in its Authorization header a secret that env holds: no call is made
\* with an undefined credential, also when the resolved config declares no
\* authKeyEnvName.
C19_CredentialPresent ==
    \A s \in Slots : \A i \in 1..Len(calls[s]) :
        /\ calls[s][i].to = "rest"
            => /\ SecretOf(s) # <<>>
               /\ calls[s][i].headers["authorization"].s = Bearer7 \o SecretOf(s)
        /\ calls[s][i].to = "ably"
            => /\ SecretOf(s) # <<>>
               /\ calls[s][i].headers["authorization"].s =
                    <<"B", "a", "s", "i", "c", " ", "btoa(">> \o SecretOf(s) \o <<":", ")">>

\* the envelope's success flag is the boolean b
SuccessFlag(resp, b) ==
    /\ resp.kind = "response"
    /\ resp.body.t = "json"
    /\ resp.body.j.k = "object"
    /\ "success" \in DOMAIN resp.body.j.f
    /\ resp.body.j.f["success"] = Bool(b)

\* the response was built by jsonSuccess: a REST downstream answered JSON,
\* or the publish call answered ok
BuiltByJsonSuccess(s) ==
    /\ pc[s] = "done"
    /\ \/ RestAnswered(s) /\ reply[s].body.has /\ reply[s].body.text.t = "json"
       \/ RanAdapter(s, "ABLY") /\ PublishOk(s)

\* the response was built by jsonError: 401, 400 for a short path, 404,
\* or 502 for a non-ok publish response
BuiltByJsonError(s) ==
    /\ pc[s] = "done"
    /\ \/ ~Authentic(request[s])
       \/ ~HasKeyPath(request[s])
       \/ ~Truthy(config[s])
       \/ RanAdapter(s, "ABLY") /\ reply[s].got = "response" /\ ~PublishOk(s)

\* C20: a response built by jsonSuccess has success = true and a response
\* built by jsonError has success = false, whatever the data wrapped: the
\* JSON a downstream REST service returns cannot change the flag.
C20_EnvelopeFlag ==
    \A s \in Slots :
        /\ BuiltByJsonSuccess(s) => SuccessFlag(response[s], "true")
        /\ BuiltByJsonError(s) => SuccessFlag(response[s], "false")

====
